---- MODULE Spec2Model ----
(***************************************************************************)
(* Model of run_cmrc2019_baseline.py: the sliding-window loop and the      *)
(* max-context ownership of convert_examples_to_features, the candidate    *)
(* extraction of write_predictions, and its conflict-resolution loop with  *)
(* the emission of the per-document answer array.                          *)
(*                                                                         *)
(* The specifications of the module:                                       *)
(*   SpecWindows     the window loop and the per-window feature flags      *)
(*   SpecCandidates  candidate extraction from one choice's features       *)
(*   Spec            softmax, the conflict-resolution loop and the output  *)
(*   SpecReplay      the conflict resolution run twice on the same lists   *)
(*   SpecNormalize   read_squad_examples: raw text to document tokens      *)
(*   SpecEncode      the encoded sequence, its mask and training target    *)
(*   SpecAlign       get_final_text                                        *)
(***************************************************************************)
EXTENDS Integers, Sequences, FiniteSets, TLC

\* ------------------------------------------------------------------ bounds
MaxDocLen == 6
MaxSeqLen == 7
MaxQueryLen == 1
MaxStride == 3
MaxSpans == 7
NumChoices == 3
GeneralBlanks == 2
n_best_size == 2
CandDocLen == 4
MaxPieces == 3
MaxDocTokens == 3
MaxSubTokens == 2
MaxTextLen == 3
LongDocMin == 104
LongDocMax == 110
LongSeqMin == 107
LongSeqMax == 108
LongStrideMin == 101
LongStrideMax == 103

VARIABLES
  \* convert_examples_to_features
  doc_len,          \* len(all_doc_tokens)
  split_at,         \* 0, or the 1-based subword that continues its predecessor's word
  query_len,        \* len(query_tokens) after truncation
  max_seq_length,
  doc_stride,
  doc_spans,        \* sequence of [start, length]
  start_offset,
  features,         \* sequence of [doc_span_index, token_to_orig_map, token_is_max_context]
  wpc               \* "spans" | "features" | "done"

winVars == <<doc_len, split_at, query_len, max_seq_length, doc_stride, doc_spans,
             start_offset, features, wpc>>

VARIABLES
  \* write_predictions
  num_choices,              \* number of examples (choices) of the document
  num_blanks,               \* len(example.orig_answer_text): the declared blanks
  nbest,                    \* per choice: the (text, logit) entries found for it
  all_nbest_json,           \* per choice: entries [text, probability, logit]
  answer_id_to_predict_val, \* per choice: <<texts, probabilities>>
  answer_text_dict,         \* text -> [score, key]
  is_update,
  key_index,                \* position of the for loop over the choices
  passes,                   \* executions of the body of `while True`
  pass_start,               \* <<answer_id_to_predict_val, answer_text_dict>> as the pass began
  out_put_predict,          \* the emitted array of the document
  apc                       \* "collect" | "while" | "for" | "output" | "done"

aucVars == <<num_choices, num_blanks, nbest, all_nbest_json, answer_id_to_predict_val,
             answer_text_dict, is_update, key_index, passes, pass_start, out_put_predict,
             apc>>

VARIABLES
  \* write_predictions, the candidates of one example
  marker_at,          \* the subword of all_doc_tokens that is the blank marker
  feature_index,      \* position of the loop over the example's features
  prelim_predictions, \* sequence of [feature_index, index, logit]
  cpc,                \* "wait" | "features" | "sorted"
  logits_len          \* len(result.logits) of the features gone through

candVars == <<marker_at, feature_index, prelim_predictions, cpc, logits_len>>

VARIABLES
  \* the conflict resolution of one document, run again
  run,                \* 1 or 2
  first_output        \* out_put_predict[final_id] of the first run

replayVars == <<run, first_output>>

VARIABLES
  \* read_squad_examples and the encoding of convert_examples_to_features
  raw_pieces,         \* paragraph["context"] as read, piece by piece
  paragraph_text,
  doc_tokens,
  sub_counts,         \* per document token: how many subwords it becomes
  query_tokens,
  is_training,
  example_position,   \* example.position, -1 for None
  enc_features,       \* sequence of [doc_span_index, tokens, answer_position_mask, position]
  epc                 \* "replace" | "space" | "split" | "subword" | "encode" | "done"

encVars == <<raw_pieces, paragraph_text, doc_tokens, sub_counts, query_tokens, is_training,
             example_position, enc_features, epc>>

VARIABLES
  \* get_final_text
  pred_text,
  orig_text,
  do_lower_case,
  final_text,
  gpc                 \* "call" | "returned"

alignVars == <<pred_text, orig_text, do_lower_case, final_text, gpc>>

otherVars == <<replayVars, encVars, alignVars>>

vars == <<winVars, aucVars, candVars, otherVars>>

outsideWindows == <<aucVars, candVars, otherVars>>

outsideAuction == <<winVars, candVars, otherVars>>

\* ------------------------------------------------------------ small helpers
Min(a, b) == IF a < b THEN a ELSE b

Max(a, b) == IF a > b THEN a ELSE b

\* ------------------------------------------- convert_examples_to_features
\* the closing [SEP] is not accounted for
max_tokens_one_more == max_seq_length - query_len - 2

\* The -3 accounts for [CLS], [SEP] and [SEP]
max_tokens_for_doc == max_seq_length - query_len - 3

\* length of the window that starts at start_offset
SpanLength ==
  IF doc_len - start_offset > max_tokens_for_doc
    THEN max_tokens_for_doc
    ELSE doc_len - start_offset

SpanEnd(doc_span) == doc_span.start + doc_span.length - 1

\* score = min(left, right) + 0.01 * length, kept exact in hundredths
ContextScore(doc_span, position) ==
  100 * Min(position - doc_span.start, SpanEnd(doc_span) - position)
    + doc_span.length

SpanContains(doc_span, position) ==
  ~(position < doc_span.start) /\ ~(position > SpanEnd(doc_span))

\* the scan of _check_is_max_context: best is <<best_score, best_span_index>>,
\* <<-1, -1>> standing for None (every real score is positive)
RECURSIVE BestSpanScan(_, _, _, _)
BestSpanScan(spans, position, span_index, best) ==
  IF span_index > Len(spans) THEN best
  ELSE IF ~SpanContains(spans[span_index], position)
    THEN BestSpanScan(spans, position, span_index + 1, best)
  ELSE IF best[2] = -1 \/ ContextScore(spans[span_index], position) > best[1]
    THEN BestSpanScan(spans, position, span_index + 1,
                      <<ContextScore(spans[span_index], position), span_index - 1>>)
  ELSE BestSpanScan(spans, position, span_index + 1, best)

\* a span that merely contains the position claims it
ContainsOnlyCheck(spans, cur_span_index, position) ==
  /\ cur_span_index + 1 \in 1..Len(spans)
  /\ SpanContains(spans[cur_span_index + 1], position)

\* cur_span_index is 0-based as in the source
_check_is_max_context(spans, cur_span_index, position) ==
  cur_span_index = BestSpanScan(spans, position, 1, <<-1, -1>>)[2]

WindowsIdle ==
  /\ doc_len = 0 /\ split_at = 0 /\ query_len = 0 /\ max_seq_length = 4
  /\ doc_stride = 0 /\ doc_spans = <<>> /\ start_offset = 0 /\ features = <<>>
  /\ wpc = "idle"

AuctionIdle ==
  /\ num_choices = 0 /\ num_blanks = 0 /\ nbest = <<>> /\ all_nbest_json = <<>>
  /\ answer_id_to_predict_val = <<>> /\ answer_text_dict = <<>>
  /\ is_update = FALSE /\ key_index = 0 /\ passes = 0 /\ out_put_predict = <<>>
  /\ pass_start = <<<<>>, <<>>>>
  /\ apc = "idle"

CandidatesIdle ==
  /\ marker_at = 0 /\ feature_index = 0 /\ prelim_predictions = <<>> /\ cpc = "idle"
  /\ logits_len = <<>>

ReplayIdle == run = 0 /\ first_output = <<>>

EncodeIdle ==
  /\ raw_pieces = <<>> /\ paragraph_text = <<>> /\ doc_tokens = <<>> /\ sub_counts = <<>>
  /\ query_tokens = <<>> /\ is_training = FALSE /\ example_position = -1
  /\ enc_features = <<>> /\ epc = "idle"

AlignIdle ==
  /\ pred_text = <<>> /\ orig_text = <<>> /\ do_lower_case = FALSE /\ final_text = <<>>
  /\ gpc = "idle"

InitWindows ==
  /\ AuctionIdle
  /\ CandidatesIdle
  /\ ReplayIdle
  /\ EncodeIdle
  /\ AlignIdle
  /\ doc_len \in 0..MaxDocLen
  /\ split_at \in {0} \cup 2..doc_len
  /\ query_len \in 0..MaxQueryLen
  /\ max_seq_length \in 4..MaxSeqLen
  /\ max_seq_length - query_len - 3 >= 1
  /\ doc_stride \in 0..MaxStride
  /\ doc_spans = <<>>
  /\ start_offset = 0
  /\ features = <<>>
  /\ wpc = "spans"

\* one iteration of the while loop that ends in the break
AppendLastSpan ==
  /\ UNCHANGED outsideWindows
  /\ wpc = "spans"
  /\ start_offset < doc_len
  /\ Len(doc_spans) < MaxSpans
  /\ start_offset + SpanLength = doc_len
  /\ doc_spans' = Append(doc_spans, [start |-> start_offset, length |-> SpanLength])
  /\ wpc' = "features"
  /\ UNCHANGED <<doc_len, split_at, query_len, max_seq_length, doc_stride, start_offset, features>>

\* the window jumps a whole capacity plus the stride
AdvanceTooFar(length, stride) == length + stride

\* the advance is one short
AdvanceOneShort(length, stride) == Min(length, stride) - 1

\* start_offset += min(length, doc_stride)
AdvanceBy(length, stride) == Min(length, stride)

\* one iteration of the while loop that advances start_offset
AppendSpanAndAdvance ==
  /\ UNCHANGED outsideWindows
  /\ wpc = "spans"
  /\ start_offset < doc_len
  /\ Len(doc_spans) < MaxSpans
  /\ start_offset + SpanLength # doc_len
  /\ doc_spans' = Append(doc_spans, [start |-> start_offset, length |-> SpanLength])
  /\ start_offset' = start_offset + AdvanceBy(SpanLength, doc_stride)
  /\ UNCHANGED <<doc_len, split_at, query_len, max_seq_length, doc_stride, features, wpc>>

\* the while condition is false: no window at all (empty document)
WindowLoopExit ==
  /\ UNCHANGED outsideWindows
  /\ wpc = "spans"
  /\ ~(start_offset < doc_len)
  /\ wpc' = "features"
  /\ UNCHANGED <<doc_len, split_at, query_len, max_seq_length, doc_stride, doc_spans,
                 start_offset, features>>

\* tok_to_orig_index[split_token_index] (0-based): every word is one subword,
\* except that subword split_at belongs to the word of the subword before it
tok_to_orig_index(split_token_index) ==
  IF split_at # 0 /\ split_token_index + 1 >= split_at
    THEN split_token_index - 1
    ELSE split_token_index

\* encoded position of the i-th window token: [CLS] query [SEP] come first
EncodedPos(i) == query_len + 2 + i

\* the body of `for (doc_span_index, doc_span) in enumerate(doc_spans)`,
\* restricted to the position bookkeeping
BuildFeature ==
  /\ UNCHANGED outsideWindows
  /\ wpc = "features"
  /\ Len(features) < Len(doc_spans)
  /\ LET doc_span_index == Len(features)
         doc_span == doc_spans[doc_span_index + 1]
         positions == {EncodedPos(i) : i \in 0..(doc_span.length - 1)}
     IN features' = Append(features,
          [doc_span_index |-> doc_span_index,
           token_to_orig_map |->
             [e \in positions |->
                tok_to_orig_index(doc_span.start + (e - EncodedPos(0)))],
           token_is_max_context |->
             [e \in positions |->
                _check_is_max_context(doc_spans, doc_span_index,
                                      doc_span.start + (e - EncodedPos(0)))]])
  /\ UNCHANGED <<doc_len, split_at, query_len, max_seq_length, doc_stride, doc_spans,
                 start_offset, wpc>>

FeaturesDone ==
  /\ UNCHANGED outsideWindows
  /\ wpc = "features"
  /\ Len(features) = Len(doc_spans)
  /\ wpc' = "done"
  /\ UNCHANGED <<doc_len, split_at, query_len, max_seq_length, doc_stride, doc_spans,
                 start_offset, features>>

NextWindows ==
  \/ AppendLastSpan
  \/ AppendSpanAndAdvance
  \/ WindowLoopExit
  \/ BuildFeature
  \/ FeaturesDone

SpecWindows == InitWindows /\ [][NextWindows]_vars

\* documents of more than a hundred subword tokens (and the empty document),
\* with windows and strides of more than a hundred tokens
InitLongWindows ==
  /\ AuctionIdle
  /\ CandidatesIdle
  /\ ReplayIdle
  /\ EncodeIdle
  /\ AlignIdle
  /\ doc_len \in {0} \cup LongDocMin..LongDocMax
  /\ split_at = 0
  /\ query_len \in 0..MaxQueryLen
  /\ max_seq_length \in LongSeqMin..LongSeqMax
  /\ doc_stride \in LongStrideMin..LongStrideMax
  /\ doc_spans = <<>>
  /\ start_offset = 0
  /\ features = <<>>
  /\ wpc = "spans"

SpecLongWindows == InitLongWindows /\ [][NextWindows]_vars

\* ------------------------------------------------------ write_predictions
\* texts are sequences of characters
Digit == <<"0", "1", "2", "3", "4", "5", "6", "7", "8", "9">>

DigitsOf(n) ==
  IF n < 10 THEN <<Digit[n + 1]>>
  ELSE <<Digit[(n \div 10) + 1], Digit[(n % 10) + 1]>>

UnusedPrefix == <<"[", "u", "n", "u", "s", "e", "d">>

\* the blank marker "[unusedN]"
Marker(n) == UnusedPrefix \o DigitsOf(n) \o <<"]">>

\* the nonce prediction text "empty"
EmptyText == <<"e", "m", "p", "t", "y">>

\* an ordinary document token whose text is a digit
DigitToken == <<"2">>

\* logits in units of 0.05
LogitSet == {16, 19}

\* 10000 * exp(-0.05 * d) for d = 0, 1, ...
ExpTable == <<10000, 9512, 9048, 8607, 8187, 7788, 7408, 7047, 6703, 6376,
              6065, 5769, 5488, 5220, 4966, 4724, 4493, 4274, 4066, 3867, 3679>>

\* math.exp(x) for x = score - max_score <= 0
ExpOf(x) == ExpTable[1 - x]

RECURSIVE SeqMax(_)
SeqMax(scores) ==
  IF Len(scores) = 1 THEN scores[1]
  ELSE Max(scores[1], SeqMax(Tail(scores)))

RECURSIVE SeqSum(_)
SeqSum(xs) == IF xs = <<>> THEN 0 ELSE xs[1] + SeqSum(Tail(xs))

\* a probability is the pair <<x, total_sum>> standing for x / total_sum
_compute_softmax(scores) ==
  IF scores = <<>> THEN <<>>
  ELSE LET max_score == SeqMax(scores)
           exp_scores == [i \in 1..Len(scores) |-> ExpOf(scores[i] - max_score)]
           total_sum == SeqSum(exp_scores)
       IN [i \in 1..Len(scores) |-> <<exp_scores[i], total_sum>>]

\* the assignment compares the candidates' raw logits
RawScoreOf(entry) == <<entry.logit, 1>>

\* the score a choice bids with: tmp['probability']
ScoreOf(entry) == entry.probability

\* p > q and p = q on probabilities
ScoreGreater(p, q) == p[1] * q[2] > q[1] * p[2]

ScoreEqual(p, q) == p[1] * q[2] = q[1] * p[2]

\* an empty nbest stays empty
NoNonce(entries) == entries

\* if not nbest: nbest.append(_NbestPrediction(text="empty", logit=0.0))
WithNonce(entries) ==
  IF entries = <<>> THEN <<[text |-> EmptyText, logit |-> 0]>> ELSE entries

\* nbest_json of one example
NbestJson(entries) ==
  LET filled == WithNonce(entries)
      probs == _compute_softmax([i \in 1..Len(filled) |-> filled[i].logit])
  IN [i \in 1..Len(filled) |->
        [text |-> filled[i].text, probability |-> probs[i], logit |-> filled[i].logit]]

\* all_predictions[qas_id] = [[texts], [probabilities]]
PredictVal(json) ==
  <<[i \in 1..Len(json) |-> json[i].text], [i \in 1..Len(json) |-> ScoreOf(json[i])]>>

Choices == 0..(num_choices - 1)

SeqsUpTo(S, n) == UNION {[1..k -> S] : k \in 0..n}

DistinctTexts(entries) ==
  \A i, j \in 1..Len(entries) : entries[i].text = entries[j].text => i = j

SortedByLogit(entries) ==
  \A i \in 1..(Len(entries) - 1) : entries[i].logit >= entries[i + 1].logit

\* the texts a choice can find in the document: its blank markers and a digit
\* token
GeneralTexts == {Marker(n) : n \in 1..GeneralBlanks} \cup {DigitToken}

\* what the loop over prelim_predictions can leave in nbest: at most n_best_size
\* entries, best logit first, no text twice
GeneralLists ==
  {entries \in SeqsUpTo([text : GeneralTexts, logit : LogitSet], n_best_size) :
     DistinctTexts(entries) /\ SortedByLogit(entries)}

\* the candidate lists 0.9/0.1, 0.95/0.2, 0.8/0.3 over three blanks
ScenarioList(c) ==
  CASE c = 0 -> <<[text |-> Marker(1), logit |-> 18], [text |-> Marker(2), logit |-> 2]>>
    [] c = 1 -> <<[text |-> Marker(1), logit |-> 19], [text |-> Marker(3), logit |-> 4]>>
    [] OTHER -> <<[text |-> Marker(2), logit |-> 16], [text |-> Marker(1), logit |-> 6]>>

\* the scenario's lists, whole or already down to their second candidate
ScenarioLists ==
  {ScenarioList(c) : c \in 0..2} \cup {Tail(ScenarioList(c)) : c \in 0..2}

\* the document as write_predictions meets it: its examples, the declared
\* answers and the nbest list of every example
AuctionStart ==
  /\ WindowsIdle
  /\ CandidatesIdle
  /\ EncodeIdle
  /\ AlignIdle
  /\ num_choices \in 1..NumChoices
  /\ \/ /\ num_blanks = GeneralBlanks
        /\ nbest \in [0..(num_choices - 1) -> GeneralLists]
     \/ /\ num_choices = 3
        /\ num_blanks \in {2, 3}
        /\ nbest \in [0..2 -> ScenarioLists]
  /\ all_nbest_json = <<>>
  /\ pass_start = <<<<>>, <<>>>>
  /\ answer_id_to_predict_val = <<>>
  /\ answer_text_dict = <<>>
  /\ is_update = FALSE
  /\ key_index = 0
  /\ passes = 0
  /\ out_put_predict = <<>>
  /\ apc = "collect"

InitAuction == AuctionStart /\ ReplayIdle

\* the nonce entry, the softmax and the grouping of the document's examples
CollectPredictions ==
  /\ UNCHANGED outsideAuction
  /\ apc = "collect"
  /\ all_nbest_json' = [c \in Choices |-> NbestJson(nbest[c])]
  /\ answer_id_to_predict_val' = [c \in Choices |-> PredictVal(NbestJson(nbest[c]))]
  /\ answer_text_dict' = <<>>
  /\ apc' = "while"
  /\ UNCHANGED <<pass_start, num_choices, num_blanks, nbest, is_update, key_index, passes, out_put_predict>>

\* while True: is_update = False, and the for loop starts over
StartPass ==
  /\ UNCHANGED outsideAuction
  /\ apc = "while"
  /\ is_update' = FALSE
  /\ key_index' = 0
  /\ passes' = passes + 1
  /\ pass_start' = <<answer_id_to_predict_val, answer_text_dict>>
  /\ apc' = "for"
  /\ UNCHANGED <<num_choices, num_blanks, nbest, all_nbest_json, answer_id_to_predict_val,
                 answer_text_dict, out_put_predict>>

InFor == apc = "for" /\ key_index \in Choices

value == answer_id_to_predict_val[key_index]

best_answer_text == value[1][1]

best_answer_score == value[2][1]

Held(text) == text \in DOMAIN answer_text_dict

\* the head is kept
KeepHead(val) == val

\* tmp_value[0] = tmp_value[0][1:]; tmp_value[1] = tmp_value[1][1:]
PopHead(val) == <<Tail(val[1]), Tail(val[2])>>

\* only the score of a recorded text is rewritten: its holder stays
RecordKeepsHolder(dict, text, score, key) ==
  [t \in DOMAIN dict \cup {text} |->
     IF t = text
       THEN [score |-> score, key |-> IF text \in DOMAIN dict THEN dict[text].key ELSE key]
       ELSE dict[t]]

\* answer_text_dict[text] = [score, key]
Record(dict, text, score, key) ==
  [t \in DOMAIN dict \cup {text} |->
     IF t = text THEN [score |-> score, key |-> key] ELSE dict[t]]

\* if len(value[0]) == 0: continue
SkipExhausted ==
  /\ UNCHANGED outsideAuction
  /\ InFor
  /\ Len(value[1]) = 0
  /\ key_index' = key_index + 1
  /\ UNCHANGED <<pass_start, num_choices, num_blanks, nbest, all_nbest_json, answer_id_to_predict_val,
                 answer_text_dict, is_update, passes, out_put_predict, apc>>

\* a grant is not counted as a change
UpdateUnchanged(flag) == flag

\* is_update = True
UpdateSet(flag) == TRUE

\* the text is in nobody's hands: the choice gets it
GrantUnheld ==
  /\ UNCHANGED outsideAuction
  /\ InFor
  /\ Len(value[1]) # 0
  /\ ~Held(best_answer_text)
  /\ answer_text_dict' =
       Record(answer_text_dict, best_answer_text, best_answer_score, key_index)
  /\ is_update' = UpdateSet(is_update)
  /\ key_index' = key_index + 1
  /\ UNCHANGED <<pass_start, num_choices, num_blanks, nbest, all_nbest_json, answer_id_to_predict_val,
                 passes, out_put_predict, apc>>

\* a strictly greater score can take the text
Outbids(challenger, recorded) == ScoreGreater(challenger, recorded)

\* an equal score takes the text as well
OutbidsOnTie(challenger, recorded) ==
  ScoreGreater(challenger, recorded) \/ ScoreEqual(challenger, recorded)

\* the second run of a document lets an equal score take the text
WinsByRun(challenger, recorded) ==
  IF run = 2 THEN OutbidsOnTie(challenger, recorded) ELSE Outbids(challenger, recorded)

\* best_answer_score > answer_text_score_id[0]
Wins(challenger, recorded) == Outbids(challenger, recorded)

\* the recorded holder loses its head and the choice takes the text
DisplaceHolder ==
  /\ UNCHANGED outsideAuction
  /\ InFor
  /\ Len(value[1]) # 0
  /\ Held(best_answer_text)
  /\ Wins(best_answer_score, answer_text_dict[best_answer_text].score)
  /\ LET holder == answer_text_dict[best_answer_text].key
     IN answer_id_to_predict_val' =
          [answer_id_to_predict_val EXCEPT ![holder] = PopHead(@)]
  /\ answer_text_dict' =
       Record(answer_text_dict, best_answer_text, best_answer_score, key_index)
  /\ is_update' = TRUE
  /\ key_index' = key_index + 1
  /\ UNCHANGED <<pass_start, num_choices, num_blanks, nbest, all_nbest_json, passes, out_put_predict, apc>>

\* the choice does not win the text and is not its holder: it loses its head
DiscardOwn ==
  /\ UNCHANGED outsideAuction
  /\ InFor
  /\ Len(value[1]) # 0
  /\ Held(best_answer_text)
  /\ ~Wins(best_answer_score, answer_text_dict[best_answer_text].score)
  /\ answer_text_dict[best_answer_text].key # key_index
  /\ answer_id_to_predict_val' =
       [answer_id_to_predict_val EXCEPT ![key_index] = PopHead(@)]
  /\ is_update' = TRUE
  /\ key_index' = key_index + 1
  /\ UNCHANGED <<pass_start, num_choices, num_blanks, nbest, all_nbest_json, answer_text_dict, passes,
                 out_put_predict, apc>>

\* the choice already holds the text: neither branch is taken
KeepHolding ==
  /\ UNCHANGED outsideAuction
  /\ InFor
  /\ Len(value[1]) # 0
  /\ Held(best_answer_text)
  /\ ~Wins(best_answer_score, answer_text_dict[best_answer_text].score)
  /\ answer_text_dict[best_answer_text].key = key_index
  /\ key_index' = key_index + 1
  /\ UNCHANGED <<pass_start, num_choices, num_blanks, nbest, all_nbest_json, answer_id_to_predict_val,
                 answer_text_dict, is_update, passes, out_put_predict, apc>>

\* the for loop is over and is_update is set: another pass
PassAgain ==
  /\ UNCHANGED outsideAuction
  /\ apc = "for"
  /\ key_index = num_choices
  /\ is_update # FALSE
  /\ apc' = "while"
  /\ UNCHANGED <<pass_start, num_choices, num_blanks, nbest, all_nbest_json, answer_id_to_predict_val,
                 answer_text_dict, is_update, key_index, passes, out_put_predict>>

\* if is_update == False: break
LoopBreak ==
  /\ UNCHANGED outsideAuction
  /\ apc = "for"
  /\ key_index = num_choices
  /\ is_update = FALSE
  /\ apc' = "output"
  /\ UNCHANGED <<pass_start, num_choices, num_blanks, nbest, all_nbest_json, answer_id_to_predict_val,
                 answer_text_dict, is_update, key_index, passes, out_put_predict>>

\* str.replace(old, ""): every occurrence, left to right
RECURSIVE RemoveAll(_, _)
RemoveAll(text, old) ==
  IF Len(text) < Len(old) THEN text
  ELSE IF SubSeq(text, 1, Len(old)) = old
    THEN RemoveAll(SubSeq(text, Len(old) + 1, Len(text)), old)
  ELSE <<text[1]>> \o RemoveAll(Tail(text), old)

StripMarker(text) == RemoveAll(RemoveAll(text, UnusedPrefix), <<"]">>)

IsDigit(ch) == \E d \in 1..10 : Digit[d] = ch

DigitValue(ch) == (CHOOSE d \in 1..10 : Digit[d] = ch) - 1

\* int(s) succeeds on a non-empty run of digits
IntParses(s) == Len(s) > 0 /\ \A i \in 1..Len(s) : IsDigit(s[i])

RECURSIVE IntOf(_)
IntOf(s) ==
  IF Len(s) = 0 THEN 0
  ELSE 10 * IntOf(SubSeq(s, 1, Len(s) - 1)) + DigitValue(s[Len(s)])

\* out[answer_pos - 1] = int(key); an exception leaves the array as it is
SetSlot(out, text, key) ==
  LET s == StripMarker(text)
      index == IntOf(s) - 1
      n == Len(out)
  IN IF ~IntParses(s) THEN out
     ELSE IF index >= n \/ index < 0 - n THEN out
     ELSE IF index < 0 THEN [out EXCEPT ![index + n + 1] = key]
     ELSE [out EXCEPT ![index + 1] = key]

\* for key, value_1 in answer_id_to_predict_val.items(), from choice c on
RECURSIVE EmitFrom(_, _, _)
EmitFrom(c, val, out) ==
  IF c \notin DOMAIN val THEN out
  ELSE IF Len(val[c][1]) > 0
    THEN EmitFrom(c + 1, val, SetSlot(out, val[c][1][1], c))
  ELSE EmitFrom(c + 1, val, out)

\* out_put_predict[final_id] = [-1] * len(answer_position_to_id), then the heads
EmitOutput ==
  /\ UNCHANGED outsideAuction
  /\ apc = "output"
  /\ out_put_predict' =
       EmitFrom(0, answer_id_to_predict_val, [n \in 1..num_blanks |-> -1])
  /\ apc' = "done"
  /\ UNCHANGED <<pass_start, num_choices, num_blanks, nbest, all_nbest_json, answer_id_to_predict_val,
                 answer_text_dict, is_update, key_index, passes>>

Next ==
  \/ CollectPredictions
  \/ StartPass
  \/ SkipExhausted
  \/ GrantUnheld
  \/ DisplaceHolder
  \/ DiscardOwn
  \/ KeepHolding
  \/ PassAgain
  \/ LoopBreak
  \/ EmitOutput

Spec == InitAuction /\ [][Next]_vars

\* the function runs on: a step that can be taken is taken
FairSpec == Spec /\ WF_vars(Next)

\* --------------------- write_predictions called again on the same results
InitReplay == AuctionStart /\ run = 1 /\ first_output = <<>>

\* the second call starts from the same nbest lists; every structure of the
\* first call was local to it
RunAgain ==
  /\ apc = "done"
  /\ run = 1
  /\ run' = 2
  /\ first_output' = out_put_predict
  /\ all_nbest_json' = <<>>
  /\ answer_id_to_predict_val' = <<>>
  /\ answer_text_dict' = <<>>
  /\ is_update' = FALSE
  /\ key_index' = 0
  /\ passes' = 0
  /\ pass_start' = <<<<>>, <<>>>>
  /\ out_put_predict' = <<>>
  /\ apc' = "collect"
  /\ UNCHANGED <<num_choices, num_blanks, nbest, winVars, candVars, encVars, alignVars>>

NextReplay ==
  \/ Next
  \/ RunAgain

SpecReplay == InitReplay /\ [][NextReplay]_vars

\* ---------------------------------- write_predictions: prelim_predictions
\* the index of the best logit of `left`, the first one among equals
BestOf(logits, left) ==
  CHOOSE i \in left :
    \A j \in left : logits[i] > logits[j] \/ (logits[i] = logits[j] /\ i <= j)

\* sorted(enumerate(logits), key=lambda x: x[1], reverse=True), the first n of
\* it; the indexes are 0-based
RECURSIVE BestIndexesFrom(_, _, _)
BestIndexesFrom(logits, left, n) ==
  IF n = 0 \/ left = {} THEN <<>>
  ELSE LET i == BestOf(logits, left)
       IN <<i - 1>> \o BestIndexesFrom(logits, left \ {i}, n - 1)

_get_best_indexes(logits, n) == BestIndexesFrom(logits, DOMAIN logits, n)

\* len(feature.tokens): [CLS] query [SEP] window [SEP]
TokensLen(feature) == query_len + 3 + doc_spans[feature.doc_span_index + 1].length

\* the index is not looked up in token_to_orig_map
AnyTokenPasses(feature, index) ==
  /\ ~(index >= TokensLen(feature))
  /\ (index \in DOMAIN feature.token_is_max_context
        => feature.token_is_max_context[index])

\* the three `continue` tests on an index
PassesFilters(feature, index) ==
  /\ ~(index >= TokensLen(feature))
  /\ index \in DOMAIN feature.token_to_orig_map
  /\ index \in DOMAIN feature.token_is_max_context
  /\ feature.token_is_max_context[index]

RECURSIVE Candidates(_, _, _, _)
Candidates(f, feature, logits, indexes) ==
  IF indexes = <<>> THEN <<>>
  ELSE LET index == indexes[1]
           rest == Candidates(f, feature, logits, Tail(indexes))
       IN IF PassesFilters(feature, index)
            THEN <<[feature_index |-> f, index |-> index, logit |-> logits[index + 1]]>>
                   \o rest
            ELSE rest

\* sorted(prelim_predictions, key=lambda x: x.logit, reverse=True)
RECURSIVE InsertByLogit(_, _)
InsertByLogit(sorted, entry) ==
  IF sorted = <<>> THEN <<entry>>
  ELSE IF sorted[1].logit >= entry.logit
    THEN <<sorted[1]>> \o InsertByLogit(Tail(sorted), entry)
  ELSE <<entry>> \o sorted

RECURSIVE SortedByLogitDesc(_)
SortedByLogitDesc(entries) ==
  IF entries = <<>> THEN <<>>
  ELSE InsertByLogit(SortedByLogitDesc(SubSeq(entries, 1, Len(entries) - 1)),
                     entries[Len(entries)])

InitCandidates ==
  /\ AuctionIdle
  /\ doc_len \in 0..CandDocLen
  /\ split_at = 0
  /\ marker_at \in 0..Max(doc_len - 1, 0)
  /\ query_len \in 0..MaxQueryLen
  /\ max_seq_length \in 5..6
  /\ max_seq_length - query_len - 3 >= 1
  /\ doc_stride \in 1..2
  /\ doc_spans = <<>>
  /\ start_offset = 0
  /\ features = <<>>
  /\ wpc = "spans"
  /\ feature_index = 0
  /\ prelim_predictions = <<>>
  /\ cpc = "wait"
  /\ logits_len = <<>>
  /\ ReplayIdle
  /\ EncodeIdle
  /\ AlignIdle

\* the features of the example are there: the loop over them starts
BeginCandidates ==
  /\ cpc = "wait"
  /\ wpc = "done"
  /\ cpc' = "features"
  /\ UNCHANGED <<winVars, aucVars, otherVars, marker_at, feature_index, prelim_predictions,
                 logits_len>>

\* one feature: its result, the best indexes, the three filters
ExtractCandidates ==
  /\ cpc = "features"
  /\ feature_index < Len(features)
  /\ \E n \in (max_seq_length - 1)..(max_seq_length + 1) :
       \E logits \in [1..n -> LogitSet] :
         /\ prelim_predictions' = prelim_predictions \o
              Candidates(feature_index, features[feature_index + 1], logits,
                         _get_best_indexes(logits, n_best_size))
         /\ logits_len' = Append(logits_len, n)
  /\ feature_index' = feature_index + 1
  /\ UNCHANGED <<winVars, aucVars, otherVars, marker_at, cpc>>

SortPrelim ==
  /\ cpc = "features"
  /\ feature_index = Len(features)
  /\ prelim_predictions' = SortedByLogitDesc(prelim_predictions)
  /\ cpc' = "sorted"
  /\ UNCHANGED <<winVars, aucVars, otherVars, marker_at, feature_index, logits_len>>

NextCandidates ==
  \/ AppendLastSpan
  \/ AppendSpanAndAdvance
  \/ WindowLoopExit
  \/ BuildFeature
  \/ FeaturesDone
  \/ BeginCandidates
  \/ ExtractCandidates
  \/ SortPrelim

SpecCandidates == InitCandidates /\ [][NextCandidates]_vars

\* ------------------------------------------------------ read_squad_examples
\* the raw placeholder "[BLANKn]"
Blank(n) == <<"[", "B", "L", "A", "N", "K">> \o DigitsOf(n) \o <<"]">>

\* replace_list: [['[BLANK1]', '[unused1]'], ..., ['[BLANK15]', '[unused15]']]
replace_list == [n \in 1..15 |-> <<Blank(n), Marker(n)>>]

RECURSIVE Flatten(_)
Flatten(pieces) == IF pieces = <<>> THEN <<>> ELSE pieces[1] \o Flatten(Tail(pieces))

\* text[at:at + len(old)] == old, `at` counted from 1
StartsWith(text, at, old) ==
  /\ at + Len(old) - 1 <= Len(text)
  /\ SubSeq(text, at, at + Len(old) - 1) = old

\* str.find(old): the 0-based place of the first occurrence, or -1
Find(text, old) ==
  LET places == {at \in 1..(Len(text) + 1) : StartsWith(text, at, old)}
  IN IF places = {} THEN -1
     ELSE (CHOOSE at \in places : \A other \in places : at <= other) - 1

\* str.replace(old, new, 1)
ReplaceFirst(text, old, new) ==
  LET at == Find(text, old)
  IN IF at = -1 THEN text
     ELSE SubSeq(text, 1, at) \o new \o SubSeq(text, at + Len(old) + 1, Len(text))

\* for key, value in replace_list: paragraph_text.replace(key, value, 1)
RECURSIVE ReplaceFrom(_, _)
ReplaceFrom(text, n) ==
  IF n > Len(replace_list) THEN text
  ELSE ReplaceFrom(ReplaceFirst(text, replace_list[n][1], replace_list[n][2]), n + 1)

\* the whitespace of the texts: is_whitespace(c), and c.strip() == ""
is_whitespace(c) == c = " "

\* word.strip() of a single character
StripChar(word) == IF is_whitespace(word) THEN <<>> ELSE <<word>>

\* str.strip() of a text
RECURSIVE StripLeft(_)
StripLeft(text) ==
  IF text # <<>> /\ is_whitespace(text[1]) THEN StripLeft(Tail(text)) ELSE text

RECURSIVE StripRight(_)
StripRight(text) ==
  IF text # <<>> /\ is_whitespace(text[Len(text)])
    THEN StripRight(SubSeq(text, 1, Len(text) - 1))
    ELSE text

StripText(text) == StripRight(StripLeft(text))

\* the loop over range(len(paragraph_text)) that builds tmp_text; word_index
\* counts from 1
RECURSIVE SpacedFrom(_, _, _)
SpacedFrom(text, word_index, is_blank) ==
  IF word_index > Len(text) THEN <<>>
  ELSE LET word == text[word_index]
           opened == IF StartsWith(text, word_index, UnusedPrefix) THEN TRUE ELSE is_blank
           still_blank == IF StripChar(word) = <<"]">> THEN FALSE ELSE opened
       IN (IF still_blank = FALSE THEN StripChar(word) \o <<" ">> ELSE StripChar(word))
            \o SpacedFrom(text, word_index + 1, still_blank)

\* the loop `for c in paragraph_text` that fills doc_tokens
RECURSIVE TokensFrom(_, _, _)
TokensFrom(text, tokens, prev_is_whitespace) ==
  IF text = <<>> THEN tokens
  ELSE IF is_whitespace(text[1]) THEN TokensFrom(Tail(text), tokens, TRUE)
  ELSE IF prev_is_whitespace
    THEN TokensFrom(Tail(text), Append(tokens, <<text[1]>>), FALSE)
  ELSE TokensFrom(Tail(text), [tokens EXCEPT ![Len(tokens)] = @ \o <<text[1]>>], FALSE)

\* the pieces a raw context is made of here: an ordinary character, a space,
\* the two brackets, the characters "[unused" written out, and placeholders
RawPieces ==
  {<<"a">>, <<" ">>, <<"[">>, <<"]">>, UnusedPrefix} \cup {Blank(n) : n \in 1..GeneralBlanks}

IsBlankPiece(piece) == \E n \in 1..15 : piece = Blank(n)

\* every placeholder occurs at most once in a context
BlanksUnique(pieces) ==
  \A i, j \in 1..Len(pieces) : (IsBlankPiece(pieces[i]) /\ pieces[i] = pieces[j]) => i = j

InitNormalize ==
  /\ WindowsIdle
  /\ AuctionIdle
  /\ CandidatesIdle
  /\ ReplayIdle
  /\ AlignIdle
  /\ raw_pieces \in SeqsUpTo(RawPieces, MaxPieces)
  /\ BlanksUnique(raw_pieces)
  /\ paragraph_text = Flatten(raw_pieces)
  /\ doc_tokens = <<>>
  /\ sub_counts = <<>>
  /\ query_tokens = <<>>
  /\ is_training = FALSE
  /\ example_position = -1
  /\ enc_features = <<>>
  /\ epc = "replace"

outsideEncode == <<aucVars, candVars, replayVars, alignVars>>

\* the placeholders become marker texts
ReplaceBlanks ==
  /\ UNCHANGED outsideEncode
  /\ UNCHANGED winVars
  /\ epc = "replace"
  /\ paragraph_text' = ReplaceFrom(paragraph_text, 1)
  /\ epc' = "space"
  /\ UNCHANGED <<raw_pieces, doc_tokens, sub_counts, query_tokens, is_training,
                 example_position, enc_features>>

\* a space after every character outside a marker; paragraph_text = tmp_text.strip()
SpaceOut ==
  /\ UNCHANGED outsideEncode
  /\ UNCHANGED winVars
  /\ epc = "space"
  /\ paragraph_text' = StripText(SpacedFrom(paragraph_text, 1, FALSE))
  /\ epc' = "split"
  /\ UNCHANGED <<raw_pieces, doc_tokens, sub_counts, query_tokens, is_training,
                 example_position, enc_features>>

SplitTokens ==
  /\ UNCHANGED outsideEncode
  /\ UNCHANGED winVars
  /\ epc = "split"
  /\ doc_tokens' = TokensFrom(paragraph_text, <<>>, TRUE)
  /\ epc' = "subword"
  /\ UNCHANGED <<raw_pieces, paragraph_text, sub_counts, query_tokens, is_training,
                 example_position, enc_features>>

\* ------------------- convert_examples_to_features: subwords and encoding
\* the word "unused"
UnusedWord == Tail(UnusedPrefix)

\* token.find("unused") > -1
HasUnused(token) == Find(token, UnusedWord) > -1

\* what the tokenizer can make of a document token: no subword, the token, or
\* the token and continuation pieces; a token with "unused" is not given to it
SubCountsOf(tokens) ==
  {counts \in [1..Len(tokens) -> 0..MaxSubTokens] :
     \A i \in 1..Len(tokens) : HasUnused(tokens[i]) => counts[i] = 1}

\* sub_tokens of one document token
SubTokens(token, count) ==
  [k \in 1..count |-> IF k = 1 THEN token ELSE <<"#", "#">> \o token]

\* all_doc_tokens after the tokens from i on (i counts from 1)
RECURSIVE AllDocTokensFrom(_, _, _)
AllDocTokensFrom(tokens, counts, i) ==
  IF i > Len(tokens) THEN <<>>
  ELSE SubTokens(tokens[i], counts[i]) \o AllDocTokensFrom(tokens, counts, i + 1)

all_doc_tokens == AllDocTokensFrom(doc_tokens, sub_counts, 1)

\* tok_to_orig_index as a list of 0-based document token indexes
RECURSIVE TokToOrigFrom(_, _)
TokToOrigFrom(counts, i) ==
  IF i > Len(counts) THEN <<>>
  ELSE [k \in 1..counts[i] |-> i - 1] \o TokToOrigFrom(counts, i + 1)

\* orig_to_tok_index[i]: len(all_doc_tokens) when token i is reached
orig_to_tok_index(i) == SeqSum(SubSeq(sub_counts, 1, i))

\* the loop over example.doc_tokens of lines 287-295
SubwordStage ==
  /\ UNCHANGED outsideEncode
  /\ UNCHANGED winVars
  /\ epc = "subword"
  /\ sub_counts' \in SubCountsOf(doc_tokens)
  /\ epc' = "done"
  /\ UNCHANGED <<raw_pieces, paragraph_text, doc_tokens, query_tokens, is_training,
                 example_position, enc_features>>

NextNormalize ==
  \/ ReplaceBlanks
  \/ SpaceOut
  \/ SplitTokens
  \/ SubwordStage

SpecNormalize == InitNormalize /\ [][NextNormalize]_vars

\* the tokens "[CLS]" and "[SEP]"
ClsToken == <<"[", "C", "L", "S", "]">>

SepToken == <<"[", "S", "E", "P", "]">>

\* the document tokens of an example: ordinary characters and one marker
DocTokenTexts == {<<"a">>, Marker(1)}

\* the tokens a choice's text can become: an ordinary one and the word "unused"
QueryTokenTexts == {<<"q">>, UnusedWord}

InitEncode ==
  /\ AuctionIdle
  /\ CandidatesIdle
  /\ ReplayIdle
  /\ AlignIdle
  /\ raw_pieces = <<>>
  /\ paragraph_text = <<>>
  /\ doc_tokens \in SeqsUpTo(DocTokenTexts, MaxDocTokens)
  /\ sub_counts \in SubCountsOf(doc_tokens)
  /\ query_tokens \in SeqsUpTo(QueryTokenTexts, MaxQueryLen)
  /\ is_training \in BOOLEAN
  \* read_squad_examples keeps a training example when the token at
  \* example.position holds the answer's marker
  /\ IF is_training
       THEN /\ example_position \in 0..(Len(doc_tokens) - 1)
            /\ doc_tokens[example_position + 1] = Marker(1)
            /\ \A i \in 1..Len(doc_tokens) :
                 doc_tokens[i] = Marker(1) => i = example_position + 1
       ELSE example_position = -1
  /\ enc_features = <<>>
  /\ epc = "encode"
  /\ doc_len = Len(all_doc_tokens)
  /\ split_at = 0
  /\ query_len = Len(query_tokens)
  /\ max_seq_length \in 5..6
  /\ max_seq_length - query_len - 3 >= 1
  /\ doc_stride \in 1..2
  /\ doc_spans = <<>>
  /\ start_offset = 0
  /\ features = <<>>
  /\ wpc = "spans"

\* tokens of the window: [CLS] query [SEP] window [SEP]
EncodedTokens(doc_span) ==
  <<ClsToken>> \o query_tokens \o <<SepToken>>
    \o SubSeq(all_doc_tokens, doc_span.start + 1, doc_span.start + doc_span.length)
    \o <<SepToken>>

\* answer_position_mask, positions counted from 0
MaskOf(tokens) ==
  [word_index \in 0..(max_seq_length - 1) |->
     IF word_index < Len(tokens) /\ HasUnused(tokens[word_index + 1]) THEN 1 ELSE 0]

\* segment_ids as the loop body appends them: 0 for [CLS], the query and the
\* first [SEP], 1 for the window's tokens and the closing [SEP]
SegmentIds(doc_span) ==
  <<0>> \o [i \in 1..Len(query_tokens) |-> 0] \o <<0>>
    \o [i \in 1..doc_span.length |-> 1] \o <<1>>

\* the tokenizer's vocabulary: "[PAD]" has id 0
vocab ==
  <<<<"[", "P", "A", "D", "]">>, ClsToken, SepToken, <<"a">>, <<"#", "#", "a">>,
    <<"q">>, UnusedWord, Marker(1)>>

\* tokenizer.convert_tokens_to_ids(tokens): one id per token
convert_tokens_to_ids(tokens) ==
  [i \in 1..Len(tokens) |-> (CHOOSE id \in 1..Len(vocab) : vocab[id] = tokens[i]) - 1]

\* while len(input_ids) < max_seq_length: the three lists get a 0 each
RECURSIVE ZeroPad(_, _, _)
ZeroPad(input_ids, input_mask, segment_ids) ==
  IF Len(input_ids) < max_seq_length
    THEN ZeroPad(Append(input_ids, 0), Append(input_mask, 0), Append(segment_ids, 0))
    ELSE <<input_ids, input_mask, segment_ids>>

\* <<input_ids, input_mask, segment_ids>> of a window after the padding
PaddedLists(doc_span) ==
  LET input_ids == convert_tokens_to_ids(EncodedTokens(doc_span))
  IN ZeroPad(input_ids, [i \in 1..Len(input_ids) |-> 1], SegmentIds(doc_span))

\* the four assert statements of lines 368-371
AssertsHold(lists, answer_position_mask) ==
  /\ Len(lists[1]) = max_seq_length
  /\ Len(lists[2]) = max_seq_length
  /\ Len(lists[3]) = max_seq_length
  /\ Cardinality(DOMAIN answer_position_mask) = max_seq_length

\* tok_position = orig_to_tok_index[example.position]
tok_position == orig_to_tok_index(example_position)

\* the test that throws a training window out
ThrownOut(doc_span) ==
  example_position < doc_span.start \/ example_position > SpanEnd(doc_span)

\* The lists are recorded as they are when the assert statements run; a
\* failing assert ends the run with an AssertionError.
\* the body of the loop over doc_spans: tokens, mask and, in training, the
\* `continue` and the position; an entry with kept = FALSE is a window that
\* did not reach features.append
EncodeFeature ==
  /\ UNCHANGED outsideEncode
  /\ wpc = "features"
  /\ epc = "encode"
  /\ Len(enc_features) < Len(doc_spans)
  /\ LET doc_span_index == Len(enc_features)
         doc_span == doc_spans[doc_span_index + 1]
         tokens == EncodedTokens(doc_span)
         token_to_orig_map ==
           [e \in {EncodedPos(i) : i \in 0..(doc_span.length - 1)} |->
              TokToOrigFrom(sub_counts, 1)[doc_span.start + (e - EncodedPos(0)) + 1]]
     IN /\ enc_features' = Append(enc_features,
          [doc_span_index |-> doc_span_index,
           tokens |-> tokens,
           token_to_orig_map |-> token_to_orig_map,
           answer_position_mask |-> MaskOf(tokens),
           input_ids |-> PaddedLists(doc_span)[1],
           input_mask |-> PaddedLists(doc_span)[2],
           segment_ids |-> PaddedLists(doc_span)[3],
           kept |-> ~(is_training /\ ThrownOut(doc_span)),
           position |-> IF is_training /\ ~ThrownOut(doc_span)
                          THEN tok_position - doc_span.start + (query_len + 2)
                          ELSE -1])
        /\ epc' = IF AssertsHold(PaddedLists(doc_span), MaskOf(tokens))
                    THEN epc
                    ELSE "AssertionError"
  /\ UNCHANGED <<raw_pieces, paragraph_text, doc_tokens, sub_counts, query_tokens,
                 is_training, example_position>>
  /\ UNCHANGED winVars

EncodeDone ==
  /\ UNCHANGED outsideEncode
  /\ wpc = "features"
  /\ epc = "encode"
  /\ Len(enc_features) = Len(doc_spans)
  /\ epc' = "done"
  /\ UNCHANGED <<raw_pieces, paragraph_text, doc_tokens, sub_counts, query_tokens,
                 is_training, example_position, enc_features>>
  /\ UNCHANGED winVars

NextEncode ==
  \/ AppendLastSpan
  \/ AppendSpanAndAdvance
  \/ WindowLoopExit
  \/ EncodeFeature
  \/ EncodeDone

SpecEncode == InitEncode /\ [][NextEncode]_vars

\* ------------------------------------------------------------ get_final_text
\* the characters of the texts: a lower-case and an upper-case letter, the
\* space, a punctuation character and a combining accent
CombiningAccent == "U+0301"

AlignChars == {"a", "A", " ", ",", CombiningAccent}

\* token.lower() and _run_strip_accents(token), when do_lower_case
Cased(text, lower) ==
  IF ~lower THEN text
  ELSE LET kept == SelectSeq(text, LAMBDA c : c # CombiningAccent)
       IN [i \in 1..Len(kept) |-> IF kept[i] = "A" THEN "a" ELSE kept[i]]

\* _run_split_on_punc: a punctuation character is a token of its own
RECURSIVE PuncSpaced(_)
PuncSpaced(text) ==
  IF text = <<>> THEN <<>>
  ELSE (IF text[1] = "," THEN <<" ", ",", " ">> ELSE <<text[1]>>) \o PuncSpaced(Tail(text))

\* whitespace_tokenize(text)
whitespace_tokenize(text) == TokensFrom(text, <<>>, TRUE)

\* " ".join(tokens)
RECURSIVE JoinSpaces(_)
JoinSpaces(tokens) ==
  IF tokens = <<>> THEN <<>>
  ELSE IF Len(tokens) = 1 THEN tokens[1]
  ELSE tokens[1] \o <<" ">> \o JoinSpaces(Tail(tokens))

\* BasicTokenizer(do_lower_case).tokenize(text)
BasicTokenize(text, lower) == whitespace_tokenize(PuncSpaced(Cased(text, lower)))

\* tok_text = " ".join(tokenizer.tokenize(orig_text))
tok_text == JoinSpaces(BasicTokenize(orig_text, do_lower_case))

\* _strip_spaces(text)[1]: ns_to_s_map as the list of the 0-based places of the
\* characters that are not spaces
RECURSIVE NsToSFrom(_, _)
NsToSFrom(text, i) ==
  IF i > Len(text) THEN <<>>
  ELSE (IF text[i] = " " THEN <<>> ELSE <<i - 1>>) \o NsToSFrom(text, i + 1)

ns_to_s_map(text) == NsToSFrom(text, 1)

start_position == Find(tok_text, pred_text)

end_position == start_position + Len(pred_text) - 1

\* tok_s_to_ns_map: defined at the places of tok_text that are not spaces
InTokMap(place) == \E k \in 1..Len(ns_to_s_map(tok_text)) : ns_to_s_map(tok_text)[k] = place

tok_s_to_ns_map(place) ==
  (CHOOSE k \in 1..Len(ns_to_s_map(tok_text)) : ns_to_s_map(tok_text)[k] = place) - 1

\* the place in orig_text a place of tok_text is projected to, -1 for None
OrigPlace(place) ==
  IF ~InTokMap(place) THEN -1
  ELSE IF tok_s_to_ns_map(place) + 1 \notin DOMAIN ns_to_s_map(orig_text) THEN -1
  ELSE ns_to_s_map(orig_text)[tok_s_to_ns_map(place) + 1]

LengthsEqual == Len(ns_to_s_map(orig_text)) = Len(ns_to_s_map(tok_text))

\* the alignment failed and the prediction is returned
ReturnPred(pred, orig) == pred

\* return orig_text
Fallback(pred, orig) == orig

\* the slice stops before orig_end_position
SliceEndShort(orig_end_position) == orig_end_position

\* orig_text[orig_start_position:(orig_end_position + 1)]
SliceEnd(orig_end_position) == orig_end_position + 1

InitAlign ==
  /\ WindowsIdle
  /\ AuctionIdle
  /\ CandidatesIdle
  /\ ReplayIdle
  /\ EncodeIdle
  /\ pred_text \in SeqsUpTo(AlignChars, MaxTextLen)
  /\ orig_text \in SeqsUpTo(AlignChars, MaxTextLen)
  /\ do_lower_case \in BOOLEAN
  /\ final_text = <<>>
  /\ gpc = "call"

outsideAlign == <<winVars, aucVars, candVars, replayVars, encVars>>

\* if start_position == -1: return orig_text
ReturnNotFound ==
  /\ UNCHANGED outsideAlign
  /\ gpc = "call"
  /\ start_position = -1
  /\ final_text' = Fallback(pred_text, orig_text)
  /\ gpc' = "returned"
  /\ UNCHANGED <<pred_text, orig_text, do_lower_case>>

\* if len(orig_ns_text) != len(tok_ns_text): return orig_text
ReturnLengthsDiffer ==
  /\ UNCHANGED outsideAlign
  /\ gpc = "call"
  /\ start_position # -1
  /\ ~LengthsEqual
  /\ final_text' = Fallback(pred_text, orig_text)
  /\ gpc' = "returned"
  /\ UNCHANGED <<pred_text, orig_text, do_lower_case>>

\* if orig_start_position is None: return orig_text
ReturnNoStart ==
  /\ UNCHANGED outsideAlign
  /\ gpc = "call"
  /\ start_position # -1
  /\ LengthsEqual
  /\ OrigPlace(start_position) = -1
  /\ final_text' = Fallback(pred_text, orig_text)
  /\ gpc' = "returned"
  /\ UNCHANGED <<pred_text, orig_text, do_lower_case>>

\* if orig_end_position is None: return orig_text
ReturnNoEnd ==
  /\ UNCHANGED outsideAlign
  /\ gpc = "call"
  /\ start_position # -1
  /\ LengthsEqual
  /\ OrigPlace(start_position) # -1
  /\ OrigPlace(end_position) = -1
  /\ final_text' = Fallback(pred_text, orig_text)
  /\ gpc' = "returned"
  /\ UNCHANGED <<pred_text, orig_text, do_lower_case>>

\* output_text = orig_text[orig_start_position:(orig_end_position + 1)]
ReturnSlice ==
  /\ UNCHANGED outsideAlign
  /\ gpc = "call"
  /\ start_position # -1
  /\ LengthsEqual
  /\ OrigPlace(start_position) # -1
  /\ OrigPlace(end_position) # -1
  /\ final_text' = SubSeq(orig_text, OrigPlace(start_position) + 1,
                          SliceEnd(OrigPlace(end_position)))
  /\ gpc' = "returned"
  /\ UNCHANGED <<pred_text, orig_text, do_lower_case>>

NextAlign ==
  \/ ReturnNotFound
  \/ ReturnLengthsDiffer
  \/ ReturnNoStart
  \/ ReturnNoEnd
  \/ ReturnSlice

SpecAlign == InitAlign /\ [][NextAlign]_vars

\* ------------------------------------------------------------------ claims
WindowLoopOver == wpc # "spans"

Covered(position) == \E i \in 1..Len(doc_spans) : SpanContains(doc_spans[i], position)

\* C1: for 1 <= S < C <= L the windows of the sliding-window loop start at 0,
\* leave no gap between consecutive windows, cover exactly [0, L-1], and the
\* last window ends at L-1.
C1_WindowCoverage ==
  (WindowLoopOver /\ 1 <= doc_stride /\ doc_stride < max_tokens_for_doc
     /\ max_tokens_for_doc <= doc_len)
  => /\ Len(doc_spans) >= 1
     /\ doc_spans[1].start = 0
     /\ \A i \in 1..(Len(doc_spans) - 1) :
          /\ doc_spans[i + 1].start <= SpanEnd(doc_spans[i]) + 1
          /\ doc_spans[i + 1].start > doc_spans[i].start
     /\ \A i \in 1..Len(doc_spans) :
          doc_spans[i].start >= 0 /\ SpanEnd(doc_spans[i]) <= doc_len - 1
     /\ \A position \in 0..(doc_len - 1) : Covered(position)
     /\ SpanEnd(doc_spans[Len(doc_spans)]) = doc_len - 1

C1_Witness ==
  /\ wpc = "done" /\ 1 <= doc_stride /\ doc_stride < max_tokens_for_doc
  /\ max_tokens_for_doc <= doc_len
  /\ Len(doc_spans) >= 3
  /\ SpanEnd(doc_spans[Len(doc_spans)]) = doc_len - 1

Owners(position) ==
  {i \in 0..(Len(doc_spans) - 1) : _check_is_max_context(doc_spans, i, position)}

FlaggedFeatures(position) ==
  {f \in 1..Len(features) :
     \E e \in DOMAIN features[f].token_is_max_context :
       /\ features[f].token_is_max_context[e]
       /\ doc_spans[f].start + (e - EncodedPos(0)) = position}

\* C2: once the window loop has produced its windows, every token position p in
\* [0, L-1] has exactly one window index i with _check_is_max_context(doc_spans,
\* i, p), that window contains p, and the flags stored in the features agree.
C2_MaxContextTotal ==
  WindowLoopOver =>
    \A position \in 0..(doc_len - 1) :
      /\ Cardinality(Owners(position)) = 1
      /\ \A i \in Owners(position) : SpanContains(doc_spans[i + 1], position)
      /\ wpc = "done" =>
           /\ Cardinality(FlaggedFeatures(position)) = 1
           /\ \A f \in FlaggedFeatures(position) : f - 1 \in Owners(position)

C2_Witness ==
  /\ wpc = "done"
  /\ Len(doc_spans) >= 3
  /\ \E position \in 0..(doc_len - 1) :
       /\ Cardinality({i \in 1..Len(doc_spans) : SpanContains(doc_spans[i], position)}) >= 2
       /\ Cardinality(FlaggedFeatures(position)) = 1

\* the context of a position in a window: min(num_left_context, num_right_context)
MinContext(doc_span, position) ==
  Min(position - doc_span.start, SpanEnd(doc_span) - position)

\* the document position of encoded position e of feature f
DocPosition(f, e) == doc_spans[f].start + (e - EncodedPos(0))

\* C23: the window flagged as the max-context window of a token position has
\* the greatest min(p - start, end - p) among the windows that contain the
\* position, and among the windows with that greatest value none is longer;
\* for windows of every length.
C23_MaxContextScore ==
  \A f \in 1..Len(features) :
    \A e \in DOMAIN features[f].token_is_max_context :
      features[f].token_is_max_context[e] =>
        \A k \in 1..Len(doc_spans) :
          SpanContains(doc_spans[k], DocPosition(f, e)) =>
            /\ MinContext(doc_spans[f], DocPosition(f, e))
                 >= MinContext(doc_spans[k], DocPosition(f, e))
            /\ MinContext(doc_spans[f], DocPosition(f, e))
                 = MinContext(doc_spans[k], DocPosition(f, e))
                 => doc_spans[f].length >= doc_spans[k].length

\* what the windows produced so far look like when the loop makes progress
WindowsSoFar ==
  /\ Len(doc_spans) <= doc_len
  /\ \A i \in 1..Len(doc_spans) :
       doc_spans[i].length >= 1 /\ doc_spans[i].length <= max_tokens_for_doc
  /\ \A i \in 1..(Len(doc_spans) - 1) : doc_spans[i + 1].start > doc_spans[i].start
  /\ wpc = "spans" =>
       /\ Len(doc_spans) <= start_offset
       /\ start_offset < doc_len \/ doc_len = 0
       /\ Len(doc_spans) < MaxSpans
  /\ WindowLoopOver =>
       \/ doc_len = 0 /\ doc_spans = <<>>
       \/ Len(doc_spans) >= 1 /\ SpanEnd(doc_spans[Len(doc_spans)]) = doc_len - 1

\* C24: for L >= 0, C >= 1 and 1 <= S < C the sliding-window loop ends: every
\* iteration but the last moves start_offset forward by at least one token, so
\* there are at most L windows, each of 1 to C tokens, with strictly increasing
\* starts, and the loop is left on the window that ends at L-1 (or at once for
\* the empty document).
C24_WindowsTerminate ==
  (1 <= doc_stride /\ doc_stride < max_tokens_for_doc /\ max_tokens_for_doc >= 1)
    => WindowsSoFar

\* a document longer than the capacity got three or more windows, the last one
\* shorter than the capacity
C24_Witness ==
  /\ wpc = "done"
  /\ 1 <= doc_stride /\ doc_stride < max_tokens_for_doc
  /\ doc_len > max_tokens_for_doc
  /\ Len(doc_spans) >= 3
  /\ doc_spans[Len(doc_spans)].length < max_tokens_for_doc
  /\ doc_spans[Len(doc_spans)].start > doc_spans[Len(doc_spans) - 1].start

\* C24 as stated: S < C is enough
C24_AsStated ==
  (doc_stride < max_tokens_for_doc /\ max_tokens_for_doc >= 1) => WindowsSoFar

\* ---- the conflict-resolution loop
AuctionRunning == apc \in {"while", "for"}

AuctionOver == apc \in {"output", "done"}

Remaining(c) == Len(answer_id_to_predict_val[c][1])

RECURSIVE TotalRemaining(_)
TotalRemaining(c) == IF c \notin Choices THEN 0 ELSE Remaining(c) + TotalRemaining(c + 1)

RECURSIVE TotalInitial(_)
TotalInitial(c) ==
  IF c \notin Choices THEN 0 ELSE Len(all_nbest_json[c]) + TotalInitial(c + 1)

AllTexts ==
  UNION {{all_nbest_json[c][i].text : i \in 1..Len(all_nbest_json[c])} : c \in Choices}

\* what is left to give away or to remove
Potential == TotalRemaining(0) + Cardinality(AllTexts \ DOMAIN answer_text_dict)

InitialPotential == TotalInitial(0) + Cardinality(AllTexts)

\* C3: the `while True` loop ends for every family of candidate lists (empty
\* lists, equal scores and shared markers included): every pass that sets
\* is_update uses up a candidate or gives away a text, so the number of passes
\* never exceeds what the lists hold plus one; every for loop runs over the
\* choices once, every recorded holder is a choice of the document, and the
\* loop is left with is_update == False.
C3_AuctionTerminates ==
  /\ AuctionRunning =>
       /\ passes + Potential <= InitialPotential + 1
       /\ (apc = "for" /\ is_update) => passes + Potential <= InitialPotential
       /\ key_index \in 0..num_choices
       /\ \A text \in DOMAIN answer_text_dict : answer_text_dict[text].key \in Choices
  /\ AuctionOver => ~is_update

C3_Witness ==
  /\ apc = "done"
  /\ passes >= 3
  /\ \E c \in Choices : Remaining(c) = 0
  /\ \E c, d \in Choices :
       /\ c # d
       /\ all_nbest_json[c][1].text = all_nbest_json[d][1].text
       /\ ScoreEqual(all_nbest_json[c][1].probability, all_nbest_json[d][1].probability)

HeadText(c) == answer_id_to_predict_val[c][1][1]

Bidders == {c \in Choices : Remaining(c) > 0}

IsMarkerText(text) == \E n \in 1..15 : text = Marker(n)

\* the slots of the emitted array a choice's head is written to
SlotOf(c) == {n \in 1..num_blanks : SetSlot([k \in 1..num_blanks |-> -1], HeadText(c), c)[n] = c}

\* C4: when the loop has ended the heads of the non-empty lists are pairwise
\* distinct, no slot of the emitted array is claimed by two choices, and no
\* choice index is in two slots.
C4_ConflictFree ==
  apc = "done" =>
    /\ \A c, d \in Bidders : HeadText(c) = HeadText(d) => c = d
    /\ \A c, d \in Bidders : (SlotOf(c) \cap SlotOf(d) # {}) => c = d
    /\ \A n, k \in 1..num_blanks :
         (out_put_predict[n] # -1 /\ out_put_predict[n] = out_put_predict[k]) => n = k

IsScenario ==
  /\ num_choices = 3
  /\ num_blanks = 3
  /\ \A c \in 0..2 : nbest[c] = ScenarioList(c)

Holder(text) == IF Held(text) THEN answer_text_dict[text].key ELSE -1

DistinctTops ==
  /\ num_choices = num_blanks
  /\ \A c \in Choices :
       /\ nbest[c] # <<>>
       /\ \E n \in 1..num_blanks : nbest[c][1].text = Marker(n)
  /\ \A c, d \in Choices : nbest[c][1].text = nbest[d][1].text => c = d

NothingRemoved == \A c \in Choices : Remaining(c) = Len(all_nbest_json[c])

IsBijection(out) ==
  /\ Len(out) = num_choices
  /\ \A n \in 1..Len(out) : out[n] \in Choices
  /\ \A n, k \in 1..Len(out) : out[n] = out[k] => n = k

\* C6: with N blanks and N choices whose first candidates are pairwise distinct
\* markers, the first pass gives every choice its first candidate, the second
\* pass changes nothing and ends the loop (the body runs exactly twice), no
\* candidate is removed, and the array is a bijection that puts each choice in
\* the slot of its first candidate.
C6_DistinctTops ==
  (DistinctTops /\ apc # "collect") =>
    /\ NothingRemoved
    /\ passes <= 2
    /\ passes = 2 => \A c \in Choices : Holder(nbest[c][1].text) = c
    /\ AuctionOver => passes = 2
    /\ apc = "done" =>
         /\ IsBijection(out_put_predict)
         /\ \A c \in Choices :
              \E n \in 1..num_blanks :
                nbest[c][1].text = Marker(n) /\ out_put_predict[n] = c

C6_Witness ==
  /\ DistinctTops /\ apc = "done" /\ num_choices = 3
  /\ out_put_predict = <<0, 2, 1>>

\* C6 as stated: the loop body is executed once
C6_AsStated ==
  (DistinctTops /\ AuctionOver) => passes = 1 /\ (apc = "done" => IsBijection(out_put_predict))

\* the choice of the for loop bids for a text that another choice holds
Contest ==
  /\ InFor
  /\ Remaining(key_index) > 0
  /\ Held(best_answer_text)
  /\ Holder(best_answer_text) # key_index

OthersKeep(c) ==
  \A d \in Choices : d # c => answer_id_to_predict_val'[d] = answer_id_to_predict_val[d]

\* C7: a choice that bids for a marker held by another choice with an equal
\* score loses its head candidate; the record of the marker and every other
\* list, the holder's included, stay as they are.
C7_TieKeepsIncumbent ==
  [][(Contest /\ IsMarkerText(best_answer_text)
        /\ ScoreEqual(best_answer_score, answer_text_dict[best_answer_text].score))
     => /\ answer_text_dict' = answer_text_dict
        /\ answer_id_to_predict_val'[key_index] = PopHead(value)
        /\ OthersKeep(key_index)
        /\ is_update']_vars

\* the index in all_nbest_json of the candidate choice c has lost last
LastLost(c) == Len(all_nbest_json[c]) - Remaining(c)

HeadIndex(c) == LastLost(c) + 1

\* the choice just served lost a marker on a tie and its holder still has it
C7_Witness ==
  /\ apc = "for" /\ key_index >= 1 /\ is_update
  /\ LET c == key_index - 1
     IN /\ LastLost(c) >= 1
        /\ LET lost == all_nbest_json[c][LastLost(c)]
           IN /\ IsMarkerText(lost.text)
              /\ Held(lost.text)
              /\ Holder(lost.text) < c
              /\ ScoreEqual(lost.probability, answer_text_dict[lost.text].score)
              /\ Remaining(Holder(lost.text)) > 0
              /\ HeadText(Holder(lost.text)) = lost.text

HeadEntry(c) == all_nbest_json[c][HeadIndex(c)]

AllEmpty == \A c \in Choices : nbest[c] = <<>>

\* C12: a choice without a valid candidate gets the single entry "empty" with
\* logit 0.0, so no list of all_nbest_json is empty; when every choice of the
\* document is without a candidate the loop still ends (after its second pass)
\* and every slot of the document's array is -1.
C12_EmptyPool ==
  /\ apc # "collect" =>
       \A c \in Choices :
         /\ Len(all_nbest_json[c]) >= 1
         /\ nbest[c] = <<>> =>
              /\ Len(all_nbest_json[c]) = 1
              /\ all_nbest_json[c][1].text = EmptyText
              /\ all_nbest_json[c][1].logit = 0
              /\ ScoreEqual(all_nbest_json[c][1].probability, <<1, 1>>)
  /\ (AllEmpty /\ AuctionRunning) => passes <= 2
  /\ (AllEmpty /\ AuctionOver) => passes = 2 /\ ~is_update
  /\ (AllEmpty /\ apc = "done") => out_put_predict = [n \in 1..num_blanks |-> -1]

C12_Witness ==
  /\ AllEmpty /\ apc = "done" /\ num_choices = NumChoices
  /\ Holder(EmptyText) = 0
  /\ \A c \in Choices : c # 0 => Remaining(c) = 0
  /\ out_put_predict = [n \in 1..num_blanks |-> -1]

\* the markers among the candidates of the document's choices: markers that
\* the document holds
CandidateMarkers ==
  {n \in 1..Len(replace_list) :
     \E c \in Choices : \E i \in 1..Len(nbest[c]) : nbest[c][i].text = Marker(n)}

\* the document holds a marker past the blanks that its answers declare
BlankCountMismatch == \E n \in CandidateMarkers : n > num_blanks

\* C19: a document whose blank markers do not match the blanks its answers
\* declare is left out of out_put_predict: no array is emitted under its id.
C19_MalformedExcluded ==
  (apc = "done" /\ BlankCountMismatch) => out_put_predict = <<>>

EndOfPass == apc = "for" /\ key_index = num_choices

RemainingAtStart(c) == Len(pass_start[1][c][1])

\* a choice has fewer candidates left than when the pass started
Shrunk == \E c \in Choices : Remaining(c) < RemainingAtStart(c)

\* the texts granted in this pass that nobody held when it started
NewlyGranted == DOMAIN answer_text_dict \ DOMAIN pass_start[2]

\* C20: within a pass is_update is set exactly when a candidate was removed
\* from some choice's list or a text held by nobody was granted; no list grows.
\* So a pass that does not end the loop shrinks a list or grants a new text,
\* and a pass that does neither is the last one.
C20_PassProgress ==
  apc = "for" =>
    /\ is_update <=> (Shrunk \/ NewlyGranted # {})
    /\ \A c \in Choices : Remaining(c) <= RemainingAtStart(c)
    /\ DOMAIN pass_start[2] \subseteq DOMAIN answer_text_dict

\* a later pass ends with is_update set by a grant alone: no list is shorter
C20_Witness ==
  /\ EndOfPass
  /\ passes >= 2
  /\ is_update
  /\ ~Shrunk
  /\ NewlyGranted # {}

\* C20 as stated: a pass that sets is_update has shrunk some choice's list
C20_AsStated == (EndOfPass /\ is_update) => Shrunk

\* C21: the number of passes of the `while True` loop, the last one (which
\* changes nothing) counted, is at most the sum of the lengths of the lists the
\* loop starts from, and never less than the two passes that a document with
\* a single candidate takes.
C21_PassBound ==
  (AuctionRunning \/ AuctionOver) => passes <= Max(2, TotalInitial(0))

\* the bound is met by a document whose loop removed a candidate
C21_Witness ==
  /\ apc = "done"
  /\ passes = TotalInitial(0)
  /\ passes >= 3
  /\ \E c \in Choices : Remaining(c) < Len(all_nbest_json[c])

\* C21 as stated: the passes are at most the sum of the lists' lengths
C21_AsStated ==
  (AuctionRunning \/ AuctionOver) => passes <= TotalInitial(0)

\* choice d loses exactly the head of its list, text and probability
LosesHead(d) ==
  /\ Remaining(d) > 0
  /\ answer_id_to_predict_val'[d][1] = Tail(answer_id_to_predict_val[d][1])
  /\ answer_id_to_predict_val'[d][2] = Tail(answer_id_to_predict_val[d][2])

\* the records of the texts other than m stay as they are
OtherRecordsKeep(m) ==
  /\ DOMAIN answer_text_dict' = DOMAIN answer_text_dict
  /\ \A t \in DOMAIN answer_text_dict : t # m => answer_text_dict'[t] = answer_text_dict[t]

\* C22: a choice c bids for a text m that is held. When another choice h holds
\* m and c's score is strictly greater than the recorded one, h loses its head
\* and the record of m becomes c with c's score; when another choice holds m
\* and c's score is not greater, c loses its head and the record of m stays.
\* In both cases one list loses exactly its head, every other list and every
\* other record is unchanged. When c itself holds m nothing changes.
C22_StepRule ==
  [][(InFor /\ Remaining(key_index) > 0 /\ Held(best_answer_text)) =>
       LET c == key_index
           m == best_answer_text
           h == Holder(best_answer_text)
       IN IF h = c
            THEN /\ answer_id_to_predict_val' = answer_id_to_predict_val
                 /\ answer_text_dict' = answer_text_dict
                 /\ is_update' = is_update
          ELSE IF ScoreGreater(best_answer_score, answer_text_dict[m].score)
            THEN /\ LosesHead(h)
                 /\ OthersKeep(h)
                 /\ answer_text_dict'[m] = [score |-> best_answer_score, key |-> c]
                 /\ OtherRecordsKeep(m)
          ELSE /\ LosesHead(c)
               /\ OthersKeep(c)
               /\ answer_text_dict' = answer_text_dict]_vars

\* the choice just served took its head text from a choice that, in this
\* pass, lost a candidate with a lower score for that text
C22_Witness ==
  /\ apc = "for" /\ key_index >= 1 /\ is_update
  /\ LET c == key_index - 1
     IN /\ Remaining(c) > 0
        /\ Held(HeadText(c))
        /\ Holder(HeadText(c)) = c
        /\ \E h \in Choices :
             /\ h # c
             /\ Remaining(h) < RemainingAtStart(h)
             /\ LastLost(h) >= 1
             /\ all_nbest_json[h][LastLost(h)].text = HeadText(c)
             /\ ScoreGreater(answer_text_dict[HeadText(c)].score,
                             all_nbest_json[h][LastLost(h)].probability)
             /\ Remaining(h) > 0

\* C26: at every point of the loop every text recorded in answer_text_dict
\* with [score, key] is the head of choice key's list, which is not empty, and
\* score is the probability at the head of that list; so no choice is the
\* recorded holder of two texts, and a choice that bids for a text held by
\* another choice meets a holder whose head is that very text.
C26_HolderConsistency ==
  /\ \A text \in DOMAIN answer_text_dict :
       LET h == answer_text_dict[text].key
       IN /\ h \in Choices
          /\ Remaining(h) > 0
          /\ answer_id_to_predict_val[h][1][1] = text
          /\ answer_id_to_predict_val[h][2][1] = answer_text_dict[text].score
  /\ \A t1, t2 \in DOMAIN answer_text_dict :
       answer_text_dict[t1].key = answer_text_dict[t2].key => t1 = t2
  /\ Contest =>
       answer_id_to_predict_val[Holder(best_answer_text)][1][1] = best_answer_text

\* the loop is over, two texts are held, and one of them was taken from a
\* choice that comes earlier in the order
C26_Witness ==
  /\ apc = "done"
  /\ Cardinality(DOMAIN answer_text_dict) >= 2
  /\ \E text \in DOMAIN answer_text_dict :
       \E c \in Choices :
         /\ c < Holder(text)
         /\ LastLost(c) >= 1
         /\ all_nbest_json[c][LastLost(c)].text = text
         /\ ScoreGreater(answer_text_dict[text].score,
                         all_nbest_json[c][LastLost(c)].probability)

\* the candidates of choice c that were its head when it was served: the ones
\* it lost and, when the loop is over, the one it is left with
Proposed(c) == 1..Min(HeadIndex(c), Len(all_nbest_json[c]))

\* C27: a text that has a record keeps one; the recorded score never gets
\* smaller and gets strictly greater whenever the recorded holder changes. When
\* the loop is over every text that a choice has bid for is held by a choice,
\* and its recorded score is not below the score of any candidate for that
\* text that was removed.
C27_MonotoneGrants ==
  /\ [][\A text \in DOMAIN answer_text_dict :
          /\ text \in DOMAIN answer_text_dict'
          /\ ~ScoreGreater(answer_text_dict[text].score, answer_text_dict'[text].score)
          /\ answer_text_dict'[text].key # answer_text_dict[text].key =>
               ScoreGreater(answer_text_dict'[text].score, answer_text_dict[text].score)]_vars
  /\ [](AuctionOver =>
          \A c \in Choices :
            \A i \in Proposed(c) :
              /\ Held(all_nbest_json[c][i].text)
              /\ i <= LastLost(c) =>
                   ~ScoreGreater(all_nbest_json[c][i].probability,
                                 answer_text_dict[all_nbest_json[c][i].text].score))

\* the loop is over; a text first granted to an earlier choice went to a later
\* choice on a strictly greater score, and the earlier choice holds its next
\* text
C27_Witness ==
  /\ apc = "done"
  /\ \E c, h \in Choices :
       /\ c < h
       /\ LastLost(c) = 1
       /\ Remaining(c) > 0
       /\ Holder(HeadText(c)) = c
       /\ LastLost(h) = 0
       /\ Holder(HeadText(h)) = h
       /\ all_nbest_json[c][1].text = HeadText(h)
       /\ \A d \in Choices : d < c => all_nbest_json[d][1].text # HeadText(h)
       /\ ScoreGreater(answer_text_dict[HeadText(h)].score, all_nbest_json[c][1].probability)

\* ---- the document tokens
\* the tokens a piece of the raw context is to become: a placeholder its marker,
\* every other character that is not whitespace a token of its own
ExpectedOf(piece) ==
  IF IsBlankPiece(piece)
    THEN <<Marker(CHOOSE n \in 1..15 : piece = Blank(n))>>
    ELSE LET kept == SelectSeq(piece, LAMBDA c : ~is_whitespace(c))
         IN [k \in 1..Len(kept) |-> <<kept[k]>>]

RECURSIVE ExpectedTokens(_)
ExpectedTokens(pieces) ==
  IF pieces = <<>> THEN <<>> ELSE ExpectedOf(pieces[1]) \o ExpectedTokens(Tail(pieces))

TokensRead == epc \in {"subword", "done"}

\* C15: whatever the raw context, every placeholder becomes exactly one document
\* token, its marker text, every other character that is not whitespace becomes
\* a token of its own, and the subword stage keeps every marker as one token.
C15_MarkerAtomicity ==
  /\ TokensRead => doc_tokens = ExpectedTokens(raw_pieces)
  /\ epc = "done" =>
       \A i \in 1..Len(doc_tokens) :
         IsMarkerText(doc_tokens[i]) =>
           SubTokens(doc_tokens[i], sub_counts[i]) = <<doc_tokens[i]>>

\* ---- the encoded windows
\* the place of the gold marker in all_doc_tokens, counted from 0
GoldTokenIndex ==
  (CHOOSE i \in 1..Len(all_doc_tokens) :
     all_doc_tokens[i] = doc_tokens[example_position + 1]) - 1

WindowOf(feature) == doc_spans[feature.doc_span_index + 1]

\* the encoded positions that hold the tokens of the window
WindowSegment(feature) ==
  {EncodedPos(i) : i \in 0..(WindowOf(feature).length - 1)}

\* C13: in training a window is thrown out exactly when the gold marker's
\* index in all_doc_tokens lies outside [start, end]; every window kept has
\* position query_length + 2 + (gold index - start), which lies in the window
\* segment and holds the gold marker, also when tokens before the marker
\* become several subwords.
C13_TrainingTarget ==
  is_training =>
    \A k \in 1..Len(enc_features) :
      LET feature == enc_features[k]
      IN /\ feature.kept <=> SpanContains(WindowOf(feature), GoldTokenIndex)
         /\ feature.kept =>
              /\ feature.position = query_len + 2 + (GoldTokenIndex - WindowOf(feature).start)
              /\ feature.position \in WindowSegment(feature)
              /\ feature.tokens[feature.position + 1] = doc_tokens[example_position + 1]

\* C14: answer_position_mask is 1 exactly at the encoded positions of the
\* window segment whose token is a blank marker, and 0 at [CLS], the query
\* tokens, the separators, ordinary document tokens and the padding.
C14_BlankMask ==
  \A k \in 1..Len(enc_features) :
    LET feature == enc_features[k]
    IN /\ DOMAIN feature.answer_position_mask = 0..(max_seq_length - 1)
       /\ \A i \in 0..(max_seq_length - 1) :
            feature.answer_position_mask[i] = 1 <=>
              (i \in WindowSegment(feature) /\ IsMarkerText(feature.tokens[i + 1]))

\* the real tokens of a window: [CLS] query [SEP] window [SEP]
RealTokens(f) == Len(query_tokens) + doc_spans[f].length + 3

\* C25: no assert of the encoding fails: for every window input_ids,
\* input_mask, segment_ids and answer_position_mask have exactly
\* max_seq_length entries; input_mask is 1 on the real tokens and 0 on the
\* padding, where input_ids is 0 as well; segment_ids is 0 on [CLS], the query
\* and the first [SEP], 1 on the window's tokens and the closing [SEP], and 0
\* on the padding.
C25_FixedSizeEncoding ==
  /\ epc # "AssertionError"
  /\ \A f \in 1..Len(enc_features) :
       LET feature == enc_features[f]
       IN /\ Len(feature.input_ids) = max_seq_length
          /\ Len(feature.input_mask) = max_seq_length
          /\ Len(feature.segment_ids) = max_seq_length
          /\ DOMAIN feature.answer_position_mask = 0..(max_seq_length - 1)
          /\ Len(feature.tokens) = RealTokens(f)
          /\ RealTokens(f) <= max_seq_length
          /\ \A i \in 1..max_seq_length :
               /\ feature.input_mask[i] = (IF i <= RealTokens(f) THEN 1 ELSE 0)
               /\ i > RealTokens(f) => feature.input_ids[i] = 0
               /\ feature.segment_ids[i] =
                    (IF i <= Len(query_tokens) + 2 THEN 0
                     ELSE IF i <= RealTokens(f) THEN 1
                     ELSE 0)

\* an example with a query token got two windows, one filling the sequence
\* and one padded
C25_Witness ==
  /\ epc = "done"
  /\ Len(query_tokens) >= 1
  /\ \E f, g \in 1..Len(enc_features) :
       /\ RealTokens(f) = max_seq_length
       /\ RealTokens(g) < max_seq_length
       /\ enc_features[g].input_mask[max_seq_length] = 0
       /\ enc_features[g].segment_ids[RealTokens(g)] = 1

\* ---- get_final_text
IsSubstring(text, part) ==
  \E i \in 0..(Len(text) - Len(part)) : SubSeq(text, i + 1, i + Len(part)) = part

NoSpaces(text) == SelectSeq(text, LAMBDA c : c # " ")

\* a place of tok_text that is no character of it, or a space
Unmappable(place) ==
  \/ place \notin 0..(Len(tok_text) - 1)
  \/ tok_text[place + 1] = " "

FallbackCase ==
  \/ ~IsSubstring(tok_text, pred_text)
  \/ Len(NoSpaces(orig_text)) # Len(NoSpaces(tok_text))
  \/ Unmappable(start_position)
  \/ Unmappable(end_position)

\* text[i:j] for some 0 <= i < j <= len(text)
IsSlice(part, text) ==
  \E i \in 0..Len(text) : \E j \in (i + 1)..Len(text) : part = SubSeq(text, i + 1, j)

\* C16: get_final_text has a return for every input (every lookup it makes is
\* of a key that is there, the slice is taken between places of orig_text);
\* when pred_text is not found in the space-joined basic tokenization of
\* orig_text, when the texts without their spaces differ in length, or when
\* the start or the end of the match cannot be mapped, it returns orig_text
\* unchanged; in every other case it returns a contiguous slice of orig_text.
C16_AlignFallback ==
  /\ gpc = "call" =>
       \/ start_position = -1
       \/ ~LengthsEqual
       \/ OrigPlace(start_position) = -1
       \/ OrigPlace(end_position) = -1
       \/ /\ OrigPlace(start_position) \in 0..(Len(orig_text) - 1)
          /\ OrigPlace(end_position) \in OrigPlace(start_position)..(Len(orig_text) - 1)
  /\ gpc = "returned" =>
       IF FallbackCase
         THEN final_text = orig_text
         ELSE IsSlice(final_text, orig_text)

\* a proper slice was returned: the prediction is the lower-cased second word
C16_Witness ==
  /\ gpc = "returned"
  /\ ~FallbackCase
  /\ orig_text = <<"a", " ", "A">>
  /\ pred_text = <<"a">>
  /\ do_lower_case
  /\ final_text = <<"a">>

\* C17: for a text X whose characters its basic tokenization leaves unchanged
\* (it may move the spaces between them), get_final_text(X, X) = X.
C17_AlignIdentity ==
  (gpc = "returned" /\ pred_text = orig_text /\ NoSpaces(tok_text) = NoSpaces(orig_text)) =>
    final_text = orig_text

\* X = "a a" went through the projection and came back whole
C17_Witness ==
  /\ gpc = "returned"
  /\ pred_text = orig_text
  /\ tok_text = orig_text
  /\ orig_text = <<"a", " ", "a">>
  /\ ~FallbackCase
  /\ final_text = orig_text

\* ---- the candidates of one example
\* the subword of all_doc_tokens behind an encoded position of a feature
SplitTokenIndex(feature, index) ==
  doc_spans[feature.doc_span_index + 1].start + (index - EncodedPos(0))

InWindowSegment(feature, index) == index \in DOMAIN feature.token_to_orig_map

\* answer_position_mask[index] = 1: the token at the position is the marker
IsMarkerPosition(feature, index) ==
  InWindowSegment(feature, index) /\ SplitTokenIndex(feature, index) = marker_at

\* C9: every candidate of prelim_predictions comes from an encoded position
\* that lies in the window segment, is flagged max-context for its window and
\* is a blank-marker position, whatever the score arrays hold.
C9_CandidateFilter ==
  \A k \in 1..Len(prelim_predictions) :
    LET pred == prelim_predictions[k]
        feature == features[pred.feature_index + 1]
    IN /\ InWindowSegment(feature, pred.index)
       /\ feature.token_is_max_context[pred.index]
       /\ IsMarkerPosition(feature, pred.index)

\* C10: the emitted array has one slot per declared blank; slot N holds choice
\* c exactly when c is the final holder of the marker unused-N, and -1 when
\* the marker has no holder.
C10_OutputRecord ==
  apc = "done" =>
    /\ Len(out_put_predict) = num_blanks
    /\ \A n \in 1..num_blanks :
         /\ \A c \in Choices :
              out_put_predict[n] = c <=> (Held(Marker(n)) /\ Holder(Marker(n)) = c)
         /\ ~Held(Marker(n)) => out_put_predict[n] = -1

\* C18: a score array that does not have the length of the encoded sequence
\* (max_seq_length), shorter or longer, ends the run: the loop over the
\* features is left for an abort and no candidate is taken from that array.
C18_WrongLengthFatal ==
  \A f \in 1..Len(logits_len) :
    logits_len[f] # max_seq_length =>
      /\ cpc = "aborted"
      /\ \A k \in 1..Len(prelim_predictions) :
           prelim_predictions[k].feature_index # f - 1

====
